---- MODULE Spec2Model ----
(***************************************************************************)
(* A model of src/src/adminApi.js: the facade over the gateway's admin     *)
(* HTTP API.  The state is the three module-level caches, the promises     *)
(* created by getPaginatedJson (each with the GET it has in flight), and   *)
(* the facade calls that are still waiting for one of those promises.      *)
(* A facade object holds no state of its own: it is a closure over its     *)
(* options, so a call on "some facade" is a call with some options.        *)
(***************************************************************************)
EXTENDS Integers, Sequences, FiniteSets, TLC

(* ----------------------------- bounds --------------------------------- *)

\* Facade calls made during one run of the process.
MaxCalls == 3

\* Pages the backend serves to one aggregation before it must end the chain.
MaxPages == 2

\* fetchConsumers calls made during one run of the process.
MaxConsumerCalls == 2

\* data.length below which a page with `next` is taken to be the last one.
PageThreshold == 100

(* ------------------------- JSON values -------------------------------- *)

\* A JSON array: Array.isArray is true, .length is defined.
JList(s) == [t |-> "list", v |-> s]

\* A JSON object used as a value; only its keys (in insertion order) are read.
JObj(keys) == [t |-> "object", v |-> keys]

IsArray(j) == j.t = "list"

\* Object.keys(x): the indices of an array, the keys of an object.
ObjectKeys(j) == IF IsArray(j) THEN [i \in 1..Len(j.v) |-> i] ELSE j.v

\* x.length: defined for an array, undefined for a plain object.
LengthOf(j) == IF IsArray(j) THEN [def |-> TRUE, n |-> Len(j.v)]
               ELSE [def |-> FALSE, n |-> 0]

\* JavaScript's a < b with a possibly undefined: undefined < b is false.
JsLess(a, b) == a.def /\ a.n < b

\* json.hasOwnProperty(k) for a parsed JSON body.
HasOwn(json, k) == k \in DOMAIN json

(* ------------------------- collaborators ------------------------------ *)

Hosts == {"kong"}

\* router(host)(endpoint): a deterministic map from an endpoint to a URI.
router(host, name, param) ==
    [host |-> host, name |-> name, param |-> param, offset |-> 0]

\* parseVersion(text): a pure function to a comparable (truthy) version.
parseVersion(text) ==
    [t |-> "version",
     v |-> CASE text = "0.10.1" -> <<0, 10, 1>>
             [] text = "0.11.0" -> <<0, 11, 0>>
             [] OTHER -> <<0, 0, 0>>]

(* ------------------- getPaginatedJson, lines 107-139 ------------------ *)

\* The error thrown for a response that is not ok: its message holds the
\* URI, the status and the status text, and it carries the response.
HttpError(uri, response) ==
    [type |-> "HttpError", uri |-> uri, status |-> response.status,
     statusText |-> response.statusText, response |-> response]

\* json.data.concat on something that has no concat method.
TypeError == [type |-> "TypeError"]

ThrowOn500(uri, response) ==
    IF response.ok \/ response.status # 500
    THEN [k |-> "ok"] ELSE [k |-> "throw", v |-> HttpError(uri, response)]

\* The first .then: throw for a response that is not ok.
CheckOk(uri, response) ==
    IF ~response.ok THEN [k |-> "throw", v |-> HttpError(uri, response)]
    ELSE [k |-> "ok"]

FollowShortPage(json) ==
    IF ~HasOwn(json, "data") THEN [k |-> "return", v |-> json]
    ELSE IF ~HasOwn(json, "next") THEN
        IF Len(ObjectKeys(json.data)) = 0 /\ ~IsArray(json.data)
        THEN [k |-> "return", v |-> JList(<<>>)]
        ELSE [k |-> "return", v |-> json.data]
    ELSE [k |-> "recurse", next |-> json.next, page |-> json.data]

\* The last .then, on the parsed body: return a value, or fetch json.next
\* and concatenate afterwards.
PageStep(json) ==
    IF ~HasOwn(json, "data") THEN [k |-> "return", v |-> json]
    ELSE IF ~HasOwn(json, "next") THEN
        IF Len(ObjectKeys(json.data)) = 0 /\ ~IsArray(json.data)
        THEN [k |-> "return", v |-> JList(<<>>)]
        ELSE [k |-> "return", v |-> json.data]
    ELSE IF JsLess(LengthOf(json.data), PageThreshold)
        THEN [k |-> "return", v |-> json.data]
    ELSE [k |-> "recurse", next |-> json.next, page |-> json.data]

ConcatReversed(page, data) ==
    IF ~IsArray(page) THEN [k |-> "throw", v |-> TypeError]
    ELSE [k |-> "return",
          v |-> JList((IF IsArray(data) THEN data.v ELSE <<data>>) \o page.v)]

\* data => json.data.concat(data): an array argument is spread, anything
\* else is appended as one element; a json.data that is no array has no
\* concat and the call throws.
ConcatThen(page, data) ==
    IF ~IsArray(page) THEN [k |-> "throw", v |-> TypeError]
    ELSE [k |-> "return",
          v |-> JList(page.v \o (IF IsArray(data) THEN data.v ELSE <<data>>))]

\* The concat callbacks of the enclosing getPaginatedJson calls, innermost
\* first; a throw skips the callbacks that remain.
RECURSIVE Unwind(_, _)
Unwind(stack, out) ==
    IF stack = <<>> \/ out.k = "throw" THEN out
    ELSE Unwind(SubSeq(stack, 1, Len(stack) - 1),
                ConcatThen(stack[Len(stack)], out.v))

(* ----------------------- the backend's answers ----------------------- *)

\* A response as the requester hands it over: ok, status, statusText and
\* the parsed body that .json() produces.
OkResponse(body) ==
    [ok |-> TRUE, status |-> 200, statusText |-> "OK", body |-> body]

FailResponses ==
    {[ok |-> FALSE, status |-> 404, statusText |-> "Not Found",
      body |-> [message |-> "Not found"]],
     [ok |-> FALSE, status |-> 500, statusText |-> "Internal Server Error",
      body |-> [message |-> "An unexpected error occurred"]]}

\* Item i of the page served at u: a JSON object with an id and a username.
Item(u, i, names) ==
    [id |-> u.offset * 1000 + i, username |-> names[((i - 1) % Len(names)) + 1]]

ListData(u, n, names) == JList([i \in 1..n |-> Item(u, i, names)])

\* "no results", serialised as {} instead of [].
EmptyObject == JObj(<<>>)

\* The continuation links a page served at u may carry: the following page,
\* or a link back to the first one.
NextLinks(u) == {[u EXCEPT !.offset = u.offset + 1], [u EXCEPT !.offset = 0]}

\* The envelopes {data, next?} built from the given data values.
Envelopes(u, datas, links) ==
    {[data |-> d] : d \in datas} \cup
    {[data |-> d, next |-> n] : d \in datas, n \in links}

\* A page that ends the backend's chain: no next, or a short list.
EndsChain(json) ==
    \/ ~HasOwn(json, "next")
    \/ IsArray(json.data) /\ Len(json.data.v) < PageThreshold

VersionTexts == {"0.10.1", "0.11.0"}

PluginNames == {"acl", "cors", "jwt"}

\* enabled_plugins: a list of names, or a mapping keyed by the names.
EnabledDescriptors ==
    {JList(<<>>), JList(<<"acl">>), JList(<<"acl", "cors">>),
     JObj(<<"cors">>)}

\* The field lists a plugin schema may declare.
FieldLists == {JList(<<"whitelist">>), JList(<<"origins">>)}

(* ------------------------------ state --------------------------------- *)

VARIABLES
    pluginSchemasCache,  \* let pluginSchemasCache (undefined at load)
    kongVersionCache,    \* let kongVersionCache (undefined at load)
    resultsCache,        \* let resultsCache = {}: URI -> promise
    promises,            \* the promises getPaginatedJson has returned
    calls,               \* the facade calls made so far
    seenSince,           \* history: URIs fetched through the cache since
                         \*   the last requestEndpoint
    staleUris,           \* history: URIs that were cached when some
                         \*   requestEndpoint was called
    epochGets,           \* history: first-page GETs per URI issued for
                         \*   cache-enabled facades since the last requestEndpoint
    firstDone            \* history: what the first successful
                         \*   fetchPluginSchemas / fetchKongVersion returned

vars == <<pluginSchemasCache, kongVersionCache, resultsCache, promises,
          calls, seenSince, staleUris, epochGets, firstDone>>

Undefined == [t |-> "undefined"]

\* JavaScript truthiness of a tagged value: undefined, null, "" and 0 are
\* falsy; every object (an empty array or Map too) is truthy.
Truthy(x) ==
    CASE x.t = "undefined" -> FALSE
      [] x.t = "null" -> FALSE
      [] x.t = "string" -> x.v # ""
      [] x.t = "number" -> x.v # 0
      [] OTHER -> TRUE

\* The first URIs the facade's accessors ask the router for.
ResourceNames == {"apis"}

FirstUris ==
    {router(h, n, "") : h \in Hosts,
        n \in ResourceNames \cup {"consumers", "plugins-enabled", "root"}}
    \cup {router(h, "plugins-scheme", pl) : h \in Hosts, pl \in PluginNames}

Init ==
    /\ pluginSchemasCache = Undefined
    /\ kongVersionCache = Undefined
    /\ resultsCache = <<>>
    /\ promises = <<>>
    /\ calls = <<>>
    /\ seenSince = {}
    /\ staleUris = {}
    /\ epochGets = [u \in FirstUris |-> 0]
    /\ firstDone = [schemas |-> Undefined, version |-> Undefined]

(* --------------- getPaginatedJson / getPaginatedJsonCache ------------- *)

PrefetchPromise(uri) ==
    [uri |-> uri, st |-> "pending", cur |-> uri, stack |-> <<>>,
     val |-> [t |-> "undefined"],
     gets |-> <<uri, [uri EXCEPT !.offset = uri.offset + 1]>>, hist |-> <<>>]

\* requester.get(uri) has been called and the chain of .then is attached.
NewPromise(uri) ==
    [uri |-> uri, st |-> "pending", cur |-> uri, stack |-> <<>>,
     val |-> Undefined, gets |-> <<uri>>, hist |-> <<>>]

\* getPaginatedJson(uri): a new promise, with its first GET issued.
getPaginatedJson(ps, rc, uri) ==
    [ps |-> Append(ps, NewPromise(uri)), rc |-> rc, pid |-> Len(ps) + 1,
     hit |-> FALSE]

\* resultsCache[uri] = result
StoreResult(rc, uri, pid) ==
    [u \in DOMAIN rc \cup {uri} |-> IF u = uri THEN pid ELSE rc[u]]

\* resultsCache.hasOwnProperty(uri)
CacheHas(rc, uri) == uri \in DOMAIN rc

RetryRejected(ps, rc, uri) ==
    IF CacheHas(rc, uri) /\ ps[rc[uri]].st # "rejected"
    THEN [ps |-> ps, rc |-> rc, pid |-> rc[uri], hit |-> TRUE]
    ELSE [ps |-> Append(ps, NewPromise(uri)),
          rc |-> StoreResult(rc, uri, Len(ps) + 1),
          pid |-> Len(ps) + 1, hit |-> FALSE]

\* getPaginatedJsonCache(uri): the stored promise, or a new one, stored.
getPaginatedJsonCache(ps, rc, uri) ==
    IF CacheHas(rc, uri)
    THEN [ps |-> ps, rc |-> rc, pid |-> rc[uri], hit |-> TRUE]
    ELSE [ps |-> Append(ps, NewPromise(uri)),
          rc |-> StoreResult(rc, uri, Len(ps) + 1),
          pid |-> Len(ps) + 1, hit |-> FALSE]

\* The getPaginatedJson that createApi is given (line 18).
Injected(cache, ps, rc, uri) ==
    IF cache THEN getPaginatedJsonCache(ps, rc, uri)
    ELSE getPaginatedJson(ps, rc, uri)

\* History kept beside a fetch made through Injected.
NoteFetch(cache, uri, hit) ==
    /\ seenSince' = IF cache THEN seenSince \cup {uri} ELSE seenSince
    /\ epochGets' = IF cache /\ ~hit
                    THEN [epochGets EXCEPT ![uri] = @ + 1] ELSE epochGets
    /\ UNCHANGED staleUris

\* The requestEndpoint calls whose response has been received.
Answered ==
    {c \in 1..Len(calls) :
        calls[c].op = "requestEndpoint" /\ calls[c].st # "pending"}

\* What a call through Injected records about the moment it was made:
\* the promise it was handed, the GETs issued for it, and (history)
\* whether it is the first fetch of a URI that an earlier requestEndpoint
\* found cached, the requestEndpoint calls answered by then, and the
\* state in which a stored promise was found.
FetchNote(cache, uri, got) ==
    [cache |-> cache, uri |-> uri, pid |-> got.pid, hit |-> got.hit,
     requests |-> Len(got.ps) - Len(promises),
     afterReset |-> cache /\ uri \in staleUris /\ uri \notin seenSince,
     answered |-> Answered,
     found |-> IF got.hit THEN promises[got.pid].st ELSE "none"]

(* ------------------------ the facade's accessors ---------------------- *)

\* fetchApis, fetchGlobalPlugins, ...: getPaginatedJson(router({name})).
FetchResource(cache, host, name) ==
    /\ Len(calls) < MaxCalls
    /\ LET uri == router(host, name, "")
           got == Injected(cache, promises, resultsCache, uri)
       IN  /\ promises' = got.ps
           /\ resultsCache' = got.rc
           /\ calls' = Append(calls, [op |-> "fetch"] @@ FetchNote(cache, uri, got))
           /\ NoteFetch(cache, uri, got.hit)
    /\ UNCHANGED <<pluginSchemasCache, kongVersionCache, firstDone>>

KeepResults(rc) == rc

\* resultsCache = {}
ClearResults(rc) == <<>>

\* Promise pr after the GET it has in flight is answered: the .then chain
\* runs up to the next GET or to the promise's settlement.
Responded(pr, response) ==
    LET hist == Append(pr.hist, [uri |-> pr.cur, response |-> response])
        chk == CheckOk(pr.cur, response)
        step == IF chk.k = "throw" THEN chk ELSE PageStep(response.body)
        out == IF step.k = "recurse" THEN step ELSE Unwind(pr.stack, step)
    IN  IF out.k = "recurse"
        THEN [pr EXCEPT !.cur = out.next,
                        !.stack = Append(pr.stack, out.page),
                        !.gets = Append(pr.gets, out.next),
                        !.hist = hist]
        ELSE [pr EXCEPT !.st = IF out.k = "throw" THEN "rejected"
                               ELSE "resolved",
                        !.val = out.v,
                        !.hist = hist]

\* The backend answers the GET that promise p has in flight.
Respond(p, response) ==
    /\ promises[p].st = "pending"
    /\ promises' = [promises EXCEPT ![p] = Responded(promises[p], response)]
    /\ UNCHANGED <<pluginSchemasCache, kongVersionCache, resultsCache, calls,
                   seenSince, staleUris, epochGets, firstDone>>

(* --------------------------- fetchConsumers --------------------------- *)

\* The declared-consumer lists a facade may be configured with: none, an
\* empty one, one naming alice.
ConsumerOptions ==
    {Undefined, JList(<<>>), JList(<<[username |-> "alice"]>>)}

\* The options of a facade that fetchConsumers reads.
ConsumerFacades ==
    [host : Hosts, ignoreConsumers : BOOLEAN,
     ignoreUndeclaredConsumers : BOOLEAN, consumers : ConsumerOptions,
     cache : BOOLEAN]

\* Names every plain object answers to through Object.prototype, with a
\* truthy value: declaredConsumers[name] finds them although not declared.
InheritedKeys == {"constructor", "toString", "valueOf", "hasOwnProperty"}

\* declaredConsumers[c.username], after declaredConsumers = {anonymous: true}
\* and declaredConsumers[c.username] = true for each declared consumer.
DeclaredLookup(consumers, username) ==
    \/ username = "anonymous"
    \/ \E i \in 1..Len(consumers.v) : consumers.v[i].username = username
    \/ username \in InheritedKeys

\* The .then of fetchConsumers (lines 43-52).
FilterConsumers(cfg, all) ==
    IF cfg.ignoreUndeclaredConsumers /\ Truthy(cfg.consumers)
    THEN JList(SelectSeq(all.v,
            LAMBDA c : DeclaredLookup(cfg.consumers, c.username)))
    ELSE all

IgnoreOnlyUndeclared(cfg) ==
    cfg.ignoreConsumers /\ ~cfg.ignoreUndeclaredConsumers

\* if (ignoreConsumers)
IgnoresConsumers(cfg) == cfg.ignoreConsumers

FetchConsumers(cfg) ==
    /\ Len(calls) < MaxCalls
    /\ IF IgnoresConsumers(cfg)
       THEN /\ calls' = Append(calls,
                  [op |-> "fetchConsumers", cfg |-> cfg, st |-> "resolved",
                   val |-> JList(<<>>), pid |-> 0, requests |-> 0])
            /\ UNCHANGED <<promises, resultsCache, seenSince, staleUris,
                           epochGets>>
       ELSE LET uri == router(cfg.host, "consumers", "")
                got == Injected(cfg.cache, promises, resultsCache, uri)
            IN  /\ promises' = got.ps
                /\ resultsCache' = got.rc
                /\ calls' = Append(calls,
                      [op |-> "fetchConsumers", cfg |-> cfg, st |-> "pending",
                       val |-> Undefined]
                      @@ FetchNote(cfg.cache, uri, got))
                /\ NoteFetch(cfg.cache, uri, got.hit)
    /\ UNCHANGED <<pluginSchemasCache, kongVersionCache, firstDone>>

\* The promise fetchConsumers waits for has settled: filter, or pass the
\* rejection on.
ConsumersThen(c) ==
    /\ calls[c].op = "fetchConsumers"
    /\ calls[c].st = "pending"
    /\ promises[calls[c].pid].st # "pending"
    /\ LET pr == promises[calls[c].pid]
       IN  calls' = [calls EXCEPT ![c] =
              IF pr.st = "rejected"
              THEN [@ EXCEPT !.st = "rejected", !.val = pr.val]
              ELSE [@ EXCEPT !.st = "resolved",
                             !.val = FilterConsumers(calls[c].cfg, pr.val)]]
    /\ UNCHANGED <<pluginSchemasCache, kongVersionCache, resultsCache,
                   promises, seenSince, staleUris, epochGets, firstDone>>

(* -------------------------- fetchKongVersion -------------------------- *)

\* History: the value a first successful singleton fetch returned.
NoteFirst(which, val) ==
    IF firstDone[which] = Undefined
    THEN [firstDone EXCEPT ![which] = val] ELSE firstDone

FetchKongVersion(cache, host) ==
    /\ Len(calls) < MaxCalls
    /\ IF Truthy(kongVersionCache)
       THEN /\ calls' = Append(calls,
                  [op |-> "fetchKongVersion", st |-> "resolved",
                   val |-> kongVersionCache, pid |-> 0, requests |-> 0,
                   later |-> Truthy(firstDone.version)])
            /\ UNCHANGED <<promises, resultsCache, seenSince, staleUris,
                           epochGets>>
       ELSE LET uri == router(host, "root", "")
                got == Injected(cache, promises, resultsCache, uri)
            IN  /\ promises' = got.ps
                /\ resultsCache' = got.rc
                /\ calls' = Append(calls,
                      [op |-> "fetchKongVersion", st |-> "pending",
                       val |-> Undefined,
                       later |-> Truthy(firstDone.version)]
                      @@ FetchNote(cache, uri, got))
                /\ NoteFetch(cache, uri, got.hit)
    /\ UNCHANGED <<pluginSchemasCache, kongVersionCache, firstDone>>

\* .then(json => json.version).then(version => kongVersionCache = ...)
VersionThen(c) ==
    /\ calls[c].op = "fetchKongVersion"
    /\ calls[c].st = "pending"
    /\ promises[calls[c].pid].st # "pending"
    /\ LET pr == promises[calls[c].pid]
           parsed == parseVersion(pr.val.version)
       IN  IF pr.st = "rejected"
           THEN /\ calls' = [calls EXCEPT ![c] =
                      [@ EXCEPT !.st = "rejected", !.val = pr.val]]
                /\ UNCHANGED <<kongVersionCache, firstDone>>
           ELSE /\ calls' = [calls EXCEPT ![c] =
                      [@ EXCEPT !.st = "resolved", !.val = parsed]]
                /\ kongVersionCache' = parsed
                /\ firstDone' = NoteFirst("version", parsed)
    /\ UNCHANGED <<pluginSchemasCache, resultsCache, promises, seenSince,
                   staleUris, epochGets>>

(* ------------------------- fetchPluginSchemas ------------------------- *)

Unlimited(concurrency, n) == n

\* The values `concurrency` is configured with; a facade created without
\* the option passes undefined.
Concurrencies == {[t |-> "number", v |-> 1], [t |-> "number", v |-> 2]}

\* How many mappers Promise.map runs at once over n items: `concurrency`
\* when that is a number of at least 1, and all of them otherwise.
MapLimit(concurrency, n) ==
    IF concurrency.t = "number" /\ concurrency.v >= 1 /\ concurrency.v < n
    THEN concurrency.v ELSE n

\* getEnabledPluginNames, lines 83-89.
getEnabledPluginNames(enabledPlugins) ==
    IF ~IsArray(enabledPlugins) THEN ObjectKeys(enabledPlugins)
    ELSE enabledPlugins.v

\* plugin => router({name: 'plugins-scheme', params: {plugin}})
schemaRoute(host, plugin) == router(host, "plugins-scheme", plugin)

\* new Map(all): an entry per name, the last pair of a name winning.
NewMap(all) ==
    [t |-> "map",
     v |-> [n \in {all[i][1] : i \in 1..Len(all)} |->
              all[CHOOSE i \in 1..Len(all) :
                    /\ all[i][1] = n
                    /\ \A j \in (i + 1)..Len(all) : all[j][1] # n][2]]]

\* History: one more first-page GET for each URI of us, when the facade
\* has its cache enabled.
CountGets(cache, us) ==
    IF cache
    THEN [u \in FirstUris |->
            epochGets[u] + Cardinality({i \in 1..Len(us) : us[i] = u})]
    ELSE epochGets

FetchPluginSchemas(cache, concurrency, host) ==
    /\ Len(calls) < MaxCalls
    /\ IF Truthy(pluginSchemasCache)
       THEN /\ calls' = Append(calls,
                  [op |-> "fetchPluginSchemas", st |-> "resolved",
                   val |-> pluginSchemasCache, pid |-> 0, requests |-> 0,
                   later |-> Truthy(firstDone.schemas)])
            /\ UNCHANGED <<promises, resultsCache, seenSince, staleUris,
                           epochGets>>
       ELSE LET uri == router(host, "plugins-enabled", "")
                got == Injected(cache, promises, resultsCache, uri)
            IN  /\ promises' = got.ps
                /\ resultsCache' = got.rc
                /\ calls' = Append(calls,
                      [op |-> "fetchPluginSchemas", st |-> "pending",
                       val |-> Undefined, host |-> host,
                       concurrency |-> concurrency, slots |-> <<>>,
                       later |-> Truthy(firstDone.schemas)]
                      @@ FetchNote(cache, uri, got))
                /\ NoteFetch(cache, uri, got.hit)
    /\ UNCHANGED <<pluginSchemasCache, kongVersionCache, firstDone>>

\* .then(all => pluginSchemasCache = new Map(all)), once every mapper is
\* done: the call resolves with the Map it has just stored.
SchemasDone(c, slots) ==
    LET all == [i \in 1..Len(slots) |-> <<slots[i].plugin, slots[i].fields>>]
    IN  /\ calls' = [calls EXCEPT ![c] =
              [@ EXCEPT !.st = "resolved", !.val = NewMap(all),
                        !.slots = slots]]
        /\ pluginSchemasCache' = NewMap(all)
        /\ firstDone' = NoteFirst("schemas", NewMap(all))

\* The enabled-plugins descriptor has arrived: Promise.map starts the
\* first `concurrency` mappers, each a getPluginScheme and so a plain
\* getPaginatedJson (line 103), and queues the rest.
SchemasMap(c) ==
    /\ calls[c].op = "fetchPluginSchemas"
    /\ calls[c].st = "pending"
    /\ promises[calls[c].pid].st # "pending"
    /\ LET pr == promises[calls[c].pid]
           names == getEnabledPluginNames(pr.val.enabled_plugins)
           m == MapLimit(calls[c].concurrency, Len(names))
           uris == [i \in 1..m |-> schemaRoute(calls[c].host, names[i])]
           slots == [i \in 1..Len(names) |->
                       IF i <= m
                       THEN [plugin |-> names[i], st |-> "inflight",
                             pid |-> Len(promises) + i, fields |-> Undefined]
                       ELSE [plugin |-> names[i], st |-> "queued",
                             pid |-> 0, fields |-> Undefined]]
       IN  IF pr.st = "rejected"
           THEN /\ calls' = [calls EXCEPT ![c] =
                      [@ EXCEPT !.st = "rejected", !.val = pr.val]]
                /\ UNCHANGED <<promises, pluginSchemasCache, firstDone,
                               epochGets>>
           ELSE IF Len(names) = 0
           THEN /\ SchemasDone(c, <<>>)
                /\ UNCHANGED <<promises, epochGets>>
           ELSE /\ calls' = [calls EXCEPT ![c] =
                      [@ EXCEPT !.st = "mapping", !.slots = slots,
                                !.requests = @ + m]]
                /\ promises' = promises \o [i \in 1..m |-> NewPromise(uris[i])]
                /\ epochGets' = CountGets(calls[c].cache, uris)
                /\ UNCHANGED <<pluginSchemasCache, firstDone>>
    /\ UNCHANGED <<kongVersionCache, resultsCache, seenSince, staleUris>>

\* One schema fetch has settled: .then(({fields}) => [plugin, fields]).
\* A rejection rejects the whole map; otherwise a queued mapper (j) is
\* started if there is one, and the map resolves when all are done.
SchemaThen(c, i, j) ==
    /\ calls[c].op = "fetchPluginSchemas"
    /\ calls[c].st = "mapping"
    /\ i \in 1..Len(calls[c].slots)
    /\ calls[c].slots[i].st = "inflight"
    /\ promises[calls[c].slots[i].pid].st # "pending"
    /\ LET pr == promises[calls[c].slots[i].pid]
           old == calls[c].slots
           queued == {k \in 1..Len(old) : old[k].st = "queued"}
           done == [old EXCEPT ![i] =
                      [@ EXCEPT !.st = "done", !.fields = pr.val.fields]]
           uri == schemaRoute(calls[c].host, old[j].plugin)
       IN  IF pr.st = "rejected"
           THEN /\ j = 0
                /\ calls' = [calls EXCEPT ![c] =
                      [@ EXCEPT !.st = "rejected", !.val = pr.val]]
                /\ UNCHANGED <<promises, pluginSchemasCache, firstDone,
                               epochGets>>
           ELSE IF queued # {}
           THEN /\ j \in queued
                /\ calls' = [calls EXCEPT ![c] =
                      [@ EXCEPT !.slots = [done EXCEPT ![j] =
                            [@ EXCEPT !.st = "inflight",
                                      !.pid = Len(promises) + 1]],
                                !.requests = @ + 1]]
                /\ promises' = Append(promises, NewPromise(uri))
                /\ epochGets' = CountGets(calls[c].cache, <<uri>>)
                /\ UNCHANGED <<pluginSchemasCache, firstDone>>
           ELSE IF \A k \in 1..Len(done) : done[k].st = "done"
           THEN /\ j = 0
                /\ SchemasDone(c, done)
                /\ UNCHANGED <<promises, epochGets>>
           ELSE /\ j = 0
                /\ calls' = [calls EXCEPT ![c] = [@ EXCEPT !.slots = done]]
                /\ UNCHANGED <<promises, pluginSchemasCache, firstDone,
                               epochGets>>
    /\ UNCHANGED <<kongVersionCache, resultsCache, seenSince, staleUris>>

(* --------------------------- requestEndpoint -------------------------- *)

\* The bodies requestEndpoint is called with: none, an object, "".
RequestBodies ==
    {Undefined, [t |-> "object", v |-> <<"name">>], [t |-> "string", v |-> ""]}

RequestMethods == {"POST", "DELETE"}

\* JSON.stringify(body), for the bodies above.
JsonStringify(body) ==
    CASE body.t = "object" -> "{\"name\":\"acl\"}"
      [] body.t = "string" -> "\"\""
      [] OTHER -> "undefined"

\* prepareOptions, lines 141-159.
prepareOptions(params) ==
    IF Truthy(params.body)
    THEN [method |-> params.method,
          headers |-> [Accept |-> "application/json",
                       ContentType |-> "application/json"],
          body |-> JsonStringify(params.body)]
    ELSE [method |-> params.method,
          headers |-> [Accept |-> "application/json"]]

\* requestEndpoint: empty the results cache, then one request.
RequestEndpoint(host, name, params) ==
    /\ Len(calls) < MaxCalls
    /\ resultsCache' = ClearResults(resultsCache)
    /\ calls' = Append(calls,
          [op |-> "requestEndpoint", st |-> "pending", val |-> Undefined,
           uri |-> router(host, name, ""), params |-> params,
           options |-> prepareOptions(params), requests |-> 1])
    /\ staleUris' = staleUris \cup seenSince
    /\ seenSince' = {}
    /\ epochGets' = [u \in FirstUris |-> 0]
    /\ UNCHANGED <<pluginSchemasCache, kongVersionCache, promises, firstDone>>

\* The backend answers the request of requestEndpoint call c.
RequestRespond(c, response) ==
    /\ calls[c].op = "requestEndpoint"
    /\ calls[c].st = "pending"
    /\ calls' = [calls EXCEPT ![c] =
                    [@ EXCEPT !.st = "resolved", !.val = response]]
    /\ UNCHANGED <<pluginSchemasCache, kongVersionCache, resultsCache,
                   promises, seenSince, staleUris, epochGets, firstDone>>

(* ------------------------- the requester's log ----------------------- *)

\* The GETs issued so far: requester.get is called once per entry of a
\* promise's gets.
RECURSIVE GetsIn(_)
GetsIn(ps) == IF ps = <<>> THEN 0 ELSE Len(Head(ps).gets) + GetsIn(Tail(ps))

\* Every call of the requester so far: the GETs, and one
\* requester.request per requestEndpoint call.
TotalRequests ==
    GetsIn(promises)
    + Cardinality({c \in 1..Len(calls) : calls[c].op = "requestEndpoint"})

(* ------------------------ what the backend serves --------------------- *)

\* The responses the backend may give to the GET promise pr has in
\* flight: a body of the shape its endpoint serves, or a failure.  A
\* collection is served in pages, and the page in position MaxPages ends
\* the chain.
Answers(pr, datas, links, descriptors, fails) ==
    LET u == pr.cur
        last == Len(pr.hist) + 1 >= MaxPages
        bodies ==
          CASE u.name = "root" -> {[version |-> v] : v \in VersionTexts}
            [] u.name = "plugins-enabled" ->
                 {[enabled_plugins |-> e] : e \in descriptors}
            [] u.name = "plugins-scheme" ->
                 {[fields |-> f] : f \in FieldLists}
            [] OTHER ->
                 {e \in Envelopes(u, datas, links) : last => EndsChain(e)}
    IN  {OkResponse(b) : b \in bodies} \cup fails

NotFound == {r \in FailResponses : r.status = 404}

\* Descriptors that enable one plugin: as a list, as a mapping.
OnePlugin == {e \in EnabledDescriptors : Len(e.v) = 1}

\* One short page of one item.
OneItem(u) == {ListData(u, 1, <<"alice">>)}

(* ----------------------------- steps --------------------------------- *)

Fetch ==
    \E cache \in BOOLEAN, host \in Hosts, name \in ResourceNames :
        FetchResource(cache, host, name)

Schemas ==
    \E cache \in BOOLEAN, concurrency \in Concurrencies, host \in Hosts :
        FetchPluginSchemas(cache, concurrency, host)

\* fetchPluginSchemas on a facade created without `concurrency`.
SchemasUnlimited ==
    \E cache \in BOOLEAN, host \in Hosts :
        FetchPluginSchemas(cache, Undefined, host)

Version == \E cache \in BOOLEAN, host \in Hosts : FetchKongVersion(cache, host)

Request ==
    \E host \in Hosts :
        RequestEndpoint(host, "apis", [method |-> "POST", body |-> Undefined])

Answer ==
    \E p \in 1..Len(promises) :
        /\ Len(promises[p].hist) < MaxPages
        /\ \E r \in Answers(promises[p], OneItem(promises[p].cur), {},
                             OnePlugin, NotFound) :
              Respond(p, r)

RequestAnswer ==
    \E c \in 1..Len(calls) : RequestRespond(c, OkResponse([id |-> 1]))

SchemasContinue ==
    \E c \in 1..Len(calls) :
        \/ SchemasMap(c)
        \/ \E i \in 1..Cardinality(PluginNames), j \in 0..Cardinality(PluginNames) :
              SchemaThen(c, i, j)

VersionContinue == \E c \in 1..Len(calls) : VersionThen(c)

(* ------------ the results cache: fetches and requestEndpoint ---------- *)

NextResults == Fetch \/ Version \/ Request \/ Answer \/ RequestAnswer
               \/ VersionContinue

SpecResults == Init /\ [][NextResults]_vars

(* ------------------------ the plugin schema cache --------------------- *)

NextSchemas == SchemasUnlimited \/ Request \/ Answer \/ RequestAnswer
               \/ SchemasContinue

SpecSchemas == Init /\ [][NextSchemas]_vars

(* --------------------- one aggregation over pages --------------------- *)

\* The lengths of the lists the backend serves as one page.
DataLens == {0, 1, PageThreshold - 1, PageThreshold, PageThreshold + 1}

\* The data of a page: a list of one of these lengths, or {}.
PageDatas(u) == {ListData(u, n, <<"alice">>) : n \in DataLens} \cup {EmptyObject}

\* One fetch of a collection, by a facade with or without the cache.
FetchOne == promises = <<>> /\ Fetch

AnswerPage ==
    \E p \in 1..Len(promises) :
        /\ Len(promises[p].hist) < MaxPages
        /\ \E r \in Answers(promises[p], PageDatas(promises[p].cur),
                            NextLinks(promises[p].cur), OnePlugin,
                            FailResponses) :
              Respond(p, r)

NextPages == FetchOne \/ AnswerPage

SpecPages == Init /\ [][NextPages]_vars

(* ------------------------------ consumers ----------------------------- *)

\* The consumer lists the backend serves, each as one short page.
ConsumerDatas(u) ==
    {ListData(u, 3, <<"alice", "bob", "anonymous">>),
     ListData(u, 2, <<"constructor", "alice">>)}

Consumers ==
    /\ Len(calls) < MaxConsumerCalls
    /\ \E cfg \in ConsumerFacades : FetchConsumers(cfg)

AnswerConsumers ==
    \E p \in 1..Len(promises) :
        /\ Len(promises[p].hist) < MaxPages
        /\ \E r \in Answers(promises[p], ConsumerDatas(promises[p].cur), {},
                            OnePlugin, NotFound) :
              Respond(p, r)

ConsumersContinue == \E c \in 1..Len(calls) : ConsumersThen(c)

NextConsumers == Consumers \/ Request \/ AnswerConsumers \/ RequestAnswer
                 \/ ConsumersContinue

SpecConsumers == Init /\ [][NextConsumers]_vars

(* ===================== the results cache (C1, C2) ===================== *)

\* The calls that went through the facade's injected getPaginatedJson.
Fetched(c) == calls[c].op # "requestEndpoint" /\ calls[c].pid > 0

\* C1: with caching enabled, the first fetch of a URI after a
\* requestEndpoint call that found the URI cached does not return the
\* stored promise: it is handed a new promise, made by a GET of that URI
\* issued in the call, also when the earlier fetch is still in flight.
C1_FreshGetAfterRequest ==
    \A c \in 1..Len(calls) :
        (Fetched(c) /\ calls[c].afterReset) =>
            /\ ~calls[c].hit
            /\ calls[c].requests = 1
            /\ promises[calls[c].pid].gets[1] = calls[c].uri
            /\ \A d \in 1..(c - 1) : Fetched(d) => calls[d].pid # calls[c].pid

\* A fetch after requestEndpoint got a fresh GET while the promise of the
\* fetch before requestEndpoint is still waiting for its response.
C1_Witness ==
    \E c \in 1..Len(calls) :
        /\ Fetched(c) /\ calls[c].afterReset /\ ~calls[c].hit
        /\ \E p \in 1..(calls[c].pid - 1) :
              promises[p].uri = calls[c].uri /\ promises[p].st = "pending"

\* C2: with caching enabled, between two consecutive requestEndpoint calls
\* at most one first-page GET is issued per URI.
C2_OneFirstPageGetPerUri == \A u \in FirstUris : epochGets[u] <= 1

(* ================= the singleton caches (C3, C10) ===================== *)

\* C3: once one fetchPluginSchemas call has completed successfully, every
\* later fetchPluginSchemas call returns that same mapping and issues no
\* GET, whatever requestEndpoint calls and backend changes came between.
C3_LaterSchemasAreTheFirst ==
    \A c \in 1..Len(calls) :
        (calls[c].op = "fetchPluginSchemas" /\ calls[c].later) =>
            /\ calls[c].st = "resolved"
            /\ calls[c].val = firstDone.schemas
            /\ calls[c].requests = 0

\* C10: once one fetchKongVersion call has completed successfully, every
\* later fetchKongVersion call returns that same parsed version and
\* issues no GET.
C10_LaterVersionsAreTheFirst ==
    \A c \in 1..Len(calls) :
        (calls[c].op = "fetchKongVersion" /\ calls[c].later) =>
            /\ calls[c].st = "resolved"
            /\ calls[c].val = firstDone.version
            /\ calls[c].requests = 0

(* ===================== pagination (C4, C5, C6, C9) ==================== *)

Body(h) == h.response.body

\* A page that was served with a list as its data.
ListPage(h) ==
    h.response.ok /\ HasOwn(Body(h), "data") /\ IsArray(Body(h).data)

\* A page of a chain that is not its last: next set, 100 items or more.
InnerPage(h) ==
    ListPage(h) /\ HasOwn(Body(h), "next")
    /\ Len(Body(h).data.v) >= PageThreshold

\* The last page of a chain: no next (its data a list, or {} for no
\* results), or fewer than 100 items.
LastPage(h) ==
    \/ ListPage(h) /\ ~HasOwn(Body(h), "next")
    \/ ListPage(h) /\ Len(Body(h).data.v) < PageThreshold
    \/ h.response.ok /\ HasOwn(Body(h), "data") /\ ~HasOwn(Body(h), "next")
       /\ Body(h).data = EmptyObject

ItemsOf(data) == IF IsArray(data) THEN data.v ELSE <<>>

\* The items of the pages served, in the order of the chain.
RECURSIVE ConcatPages(_)
ConcatPages(hist) ==
    IF hist = <<>> THEN <<>>
    ELSE ItemsOf(Body(Head(hist)).data) \o ConcatPages(Tail(hist))

\* The URIs of the pages served: the first URI, then each page's next.
ChainUris(first, hist) ==
    [i \in 1..Len(hist) |-> IF i = 1 THEN first ELSE Body(hist[i - 1]).next]

\* C4: over a chain of pages, each but the last with next and 100 items
\* or more, the last without next or with fewer than 100 items, fetchAll
\* issues one GET per page, in chain order, and resolves to the
\* concatenation of the pages' data; while the chain has not ended it
\* has not resolved and the GET for the following page is issued.
C4_ConcatenatesChain ==
    \A p \in 1..Len(promises) :
        LET pr == promises[p]
            h == pr.hist
            n == Len(h)
        IN  /\ (n >= 1 /\ (\A i \in 1..(n - 1) : InnerPage(h[i]))
                /\ LastPage(h[n])) =>
                   /\ pr.st = "resolved"
                   /\ pr.val = JList(ConcatPages(h))
                   /\ pr.gets = ChainUris(pr.uri, h)
            /\ (n >= 1 /\ \A i \in 1..n : InnerPage(h[i])) =>
                   /\ pr.st = "pending"
                   /\ pr.gets = Append(ChainUris(pr.uri, h), Body(h[n]).next)

\* A chain of MaxPages pages was aggregated.
C4_Witness ==
    \E p \in 1..Len(promises) :
        /\ promises[p].st = "resolved"
        /\ Len(promises[p].hist) = MaxPages
        /\ \A i \in 1..(MaxPages - 1) : InnerPage(promises[p].hist[i])
        /\ Len(promises[p].val.v) > PageThreshold

\* A page with next set and fewer than 100 items.
ShortWithNext(h) ==
    ListPage(h) /\ HasOwn(Body(h), "next")
    /\ Len(Body(h).data.v) < PageThreshold

\* C5: a page with next set and fewer than 100 items is the last one
\* fetched, at any depth: no GET goes to its next, and the aggregation
\* settles with it, resolving (when the pages before it are lists) to the
\* data up to and including that page's.
C5_ShortPageStops ==
    \A p \in 1..Len(promises) :
        LET pr == promises[p]
            h == pr.hist
            n == Len(h)
        IN  \A i \in 1..n :
                ShortWithNext(h[i]) =>
                    /\ i = n
                    /\ pr.gets = ChainUris(pr.uri, h)
                    /\ pr.st # "pending"
                    /\ (\A k \in 1..(i - 1) : ListPage(h[k])) =>
                           /\ pr.st = "resolved"
                           /\ pr.val = JList(ConcatPages(h))

\* A short page with next was served below the first page.
C5_Witness ==
    \E p \in 1..Len(promises) :
        /\ Len(promises[p].hist) >= 2
        /\ ShortWithNext(promises[p].hist[Len(promises[p].hist)])
        /\ promises[p].st = "resolved"

\* data is {} or [].
EmptyData(h) ==
    h.response.ok /\ HasOwn(Body(h), "data")
    /\ Body(h).data \in {EmptyObject, JList(<<>>)}

\* C6: whenever a successful response's data is {} or [], with or without
\* next, fetchAll resolves to an empty sequence.
C6_EmptyDataIsEmptySequence ==
    \A p \in 1..Len(promises) :
        (promises[p].hist # <<>> /\ EmptyData(promises[p].hist[1])
         /\ promises[p].st # "pending") =>
            /\ promises[p].st = "resolved"
            /\ promises[p].val = JList(<<>>)

\* C9: a page answered with a status that is not ok ends the aggregation:
\* the promise rejects with the error of that page (its URI, its status,
\* the response itself), whatever was fetched before, and no GET follows.
C9_FailureRejects ==
    \A p \in 1..Len(promises) :
        LET pr == promises[p]
            h == pr.hist
            n == Len(h)
        IN  \A i \in 1..n :
                ~h[i].response.ok =>
                    /\ i = n
                    /\ pr.st = "rejected"
                    /\ pr.val.type = "HttpError"
                    /\ pr.val.uri = ChainUris(pr.uri, h)[i]
                    /\ pr.val.status = h[i].response.status
                    /\ pr.val.statusText = h[i].response.statusText
                    /\ pr.val.response = h[i].response
                    /\ Len(pr.gets) = n

\* The second page failed after a full first page.
C9_Witness ==
    \E p \in 1..Len(promises) :
        /\ Len(promises[p].hist) = 2
        /\ InnerPage(promises[p].hist[1])
        /\ ~promises[p].hist[2].response.ok
        /\ promises[p].st = "rejected"

(* ========================= consumers (C7, C8) ======================== *)

\* The call appended by this step, if it is a fetchConsumers call on a
\* facade with ignoreConsumers.
IgnoredCall ==
    /\ Len(calls') = Len(calls) + 1
    /\ calls'[Len(calls')].op = "fetchConsumers"
    /\ calls'[Len(calls')].cfg.ignoreConsumers

\* C7: a fetchConsumers call on a facade with ignoreConsumers = true
\* resolves to an empty sequence and calls the requester not once,
\* whatever the other options and the results cache are; its result
\* stays what it is.
C7_IgnoredConsumers ==
    /\ [][IgnoredCall =>
            /\ TotalRequests' = TotalRequests
            /\ promises' = promises
            /\ resultsCache' = resultsCache
            /\ calls'[Len(calls')].st = "resolved"
            /\ calls'[Len(calls')].val = JList(<<>>)]_vars
    /\ [](\A c \in 1..Len(calls) :
            (calls[c].op = "fetchConsumers" /\ calls[c].cfg.ignoreConsumers)
                => calls[c].st = "resolved" /\ calls[c].val = JList(<<>>))

\* fetchConsumers was called with ignoreConsumers, and with the other
\* options set, while the results cache held the consumers' URI.
C7_Witness ==
    \E c \in 1..Len(calls) :
        /\ calls[c].op = "fetchConsumers"
        /\ calls[c].cfg.ignoreConsumers
        /\ calls[c].cfg.ignoreUndeclaredConsumers
        /\ calls[c].cfg.cache
        /\ calls[c].st = "resolved"
        /\ router(calls[c].cfg.host, "consumers", "") \in DOMAIN resultsCache

\* The usernames of a declared-consumer list; none when none was supplied.
DeclaredNames(consumers) ==
    IF consumers = Undefined THEN {}
    ELSE {consumers.v[i].username : i \in 1..Len(consumers.v)}

\* C8: with ignoreConsumers false and ignoreUndeclaredConsumers true,
\* fetchConsumers returns exactly the fetched consumers whose username is
\* in the declared list or is anonymous, in fetched order, for every
\* declared list: an empty one and one not supplied included.
C8_OnlyDeclaredOrAnonymous ==
    \A c \in 1..Len(calls) :
        (/\ calls[c].op = "fetchConsumers"
         /\ ~calls[c].cfg.ignoreConsumers
         /\ calls[c].cfg.ignoreUndeclaredConsumers
         /\ calls[c].st = "resolved") =>
            calls[c].val =
                JList(SelectSeq(promises[calls[c].pid].val.v,
                    LAMBDA x : x.username \in
                        DeclaredNames(calls[c].cfg.consumers) \cup {"anonymous"}))

(* ====================== requestEndpoint (C11) ========================= *)

\* requestEndpoint with each method and each body a caller can pass.
RequestAny ==
    \E host \in Hosts, method \in RequestMethods, body \in RequestBodies :
        RequestEndpoint(host, "apis", [method |-> method, body |-> body])

NextRequests == RequestAny \/ RequestAnswer

SpecRequests == Init /\ [][NextRequests]_vars

\* The caller passed a body: the `body` property of params is not undefined.
BodySupplied(params) == params.body # Undefined

\* C11: requestEndpoint issues exactly one request per call, with the
\* caller's method; with a body supplied the request carries
\* Content-Type: application/json and the JSON serialisation of the body,
\* with none supplied it has no Content-Type header and no body.
C11_OneRequestWithJsonBody ==
    /\ TotalRequests = Len(calls)
    /\ \A c \in 1..Len(calls) :
          calls[c].op = "requestEndpoint" =>
              LET params == calls[c].params
                  options == calls[c].options
              IN  /\ calls[c].requests = 1
                  /\ options.method = params.method
                  /\ options.headers.Accept = "application/json"
                  /\ BodySupplied(params) =>
                        /\ "ContentType" \in DOMAIN options.headers
                        /\ options.headers.ContentType = "application/json"
                        /\ "body" \in DOMAIN options
                        /\ options.body = JsonStringify(params.body)
                  /\ ~BodySupplied(params) =>
                        /\ "ContentType" \notin DOMAIN options.headers
                        /\ "body" \notin DOMAIN options

(* ================== the plugin schema cache (C12) ===================== *)

\* C12: the plugin schema cache is written at most once: once it holds a
\* value, no step (no later completion of a fetchPluginSchemas call, the
\* completion of a call started before the first one completed included)
\* replaces that value.
C12_SchemasWrittenOnce ==
    [][Truthy(pluginSchemasCache) =>
           pluginSchemasCache' = pluginSchemasCache]_vars

(* ================ termination of an aggregation (C13) ================= *)

\* The backend's chain for a collection: MaxPages URIs, each page linking
\* to the following one or back to the first, the last back to the first.
ChainLinks(u) ==
    {[u EXCEPT !.offset = (u.offset + 1) % MaxPages], [u EXCEPT !.offset = 0]}

\* The pages of the chain: an empty one, a short one or a full one.
ChainDatas(u) == {ListData(u, n, <<"alice">>) : n \in {0, 1, PageThreshold}}

\* The last MaxPages entries of a sequence.
LastOf(s) ==
    IF Len(s) > MaxPages THEN SubSeq(s, Len(s) - MaxPages + 1, Len(s)) ELSE s

\* A pending aggregation seen through its last MaxPages pages.  The pages
\* held by the pending concat callbacks (line 137) are read by no step
\* before the innermost promise settles, so which GET comes next does not
\* depend on them; the value of an aggregation that ends after more than
\* MaxPages pages is that of the pages in the window.
Window(pr) ==
    IF pr.st = "pending"
    THEN [pr EXCEPT !.stack = LastOf(@), !.gets = LastOf(@), !.hist = LastOf(@)]
    ELSE pr

\* The backend answers the GET in flight with a page of its chain, or
\* with a failure, however many pages it has served.
AnswerChain ==
    \E p \in 1..Len(promises) :
        /\ promises[p].st = "pending"
        /\ \E r \in {OkResponse(e) :
                        e \in Envelopes(promises[p].cur,
                                        ChainDatas(promises[p].cur),
                                        ChainLinks(promises[p].cur))}
                    \cup FailResponses :
              promises' = [promises EXCEPT
                              ![p] = Window(Responded(promises[p], r))]
        /\ UNCHANGED <<pluginSchemasCache, kongVersionCache, resultsCache,
                       calls, seenSince, staleUris, epochGets, firstDone>>

NextChain == FetchOne \/ AnswerChain

\* Every GET in flight is eventually answered.
FairChain == Init /\ [][NextChain]_vars /\ WF_vars(AnswerChain)

\* C13: every fetchAll call eventually completes (resolves or rejects)
\* when each GET it issues is eventually answered, whatever chain of next
\* links the backend returns, a chain that cycles back to an earlier URI
\* included.
C13_EveryFetchCompletes ==
    (promises # <<>>) ~> (promises # <<>> /\ promises[1].st # "pending")

(* ============== the schema fetches of one call (C14) ================== *)

\* Descriptors that enable none, two or three plugins: as a list, as a
\* mapping keyed by the names.
MapDescriptors ==
    {JList(<<>>), JList(<<"acl", "cors", "jwt">>), JObj(<<"cors", "acl">>)}

\* One fetchPluginSchemas call, on a facade with `concurrency` configured.
SchemasOnce == calls = <<>> /\ Schemas

AnswerMap ==
    \E p \in 1..Len(promises) :
        \E r \in Answers(promises[p], OneItem(promises[p].cur), {},
                         MapDescriptors, NotFound) :
            Respond(p, r)

NextMap == SchemasOnce \/ AnswerMap \/ SchemasContinue

SpecMap == Init /\ [][NextMap]_vars

\* The mappers of call c that Promise.map has started and that have not
\* finished: each has one schema GET in flight or just answered.
Running(c) ==
    {i \in 1..Len(calls[c].slots) : calls[c].slots[i].st = "inflight"}

\* The slots of call c for which a schema GET was issued.
Started(c) ==
    {i \in 1..Len(calls[c].slots) : calls[c].slots[i].pid > 0}

\* C14: during one fetchPluginSchemas call no more than `concurrency`
\* schema GETs are in flight at any moment; no plugin name gets a second
\* schema GET; and when the call resolves every enabled name (of a list or
\* of a mapping) has had exactly one schema GET and has exactly one entry
\* in the resulting mapping, holding the fields that GET returned.
C14_BoundedSchemaFetches ==
    \A c \in 1..Len(calls) :
        (calls[c].op = "fetchPluginSchemas" /\ calls[c].pid > 0) =>
            LET slots == calls[c].slots
                names == getEnabledPluginNames(
                             promises[calls[c].pid].val.enabled_plugins)
            IN  /\ Cardinality(Running(c)) <= calls[c].concurrency.v
                /\ Cardinality({k \in Running(c) :
                       promises[slots[k].pid].st = "pending"})
                       <= calls[c].concurrency.v
                /\ \A i \in Started(c) :
                      /\ promises[slots[i].pid].gets =
                            <<schemaRoute(calls[c].host, slots[i].plugin)>>
                      /\ \A k \in Started(c) :
                            k # i => /\ slots[k].pid # slots[i].pid
                                     /\ slots[k].plugin # slots[i].plugin
                /\ calls[c].requests =
                      (IF calls[c].hit THEN 0 ELSE 1) + Cardinality(Started(c))
                /\ calls[c].st = "resolved" =>
                      /\ Len(slots) = Len(names)
                      /\ Started(c) = 1..Len(names)
                      /\ \A i \in 1..Len(names) : slots[i].plugin = names[i]
                      /\ DOMAIN calls[c].val.v = {names[i] : i \in 1..Len(names)}
                      /\ \A i \in 1..Len(names) :
                            calls[c].val.v[names[i]] =
                                promises[slots[i].pid].val.fields

\* A call with concurrency 2 over three enabled plugins has resolved.
C14_Witness ==
    \E c \in 1..Len(calls) :
        /\ calls[c].op = "fetchPluginSchemas" /\ calls[c].pid > 0
        /\ calls[c].concurrency.v = 2
        /\ calls[c].st = "resolved"
        /\ Len(calls[c].slots) = 3

(* ================= pagination is sequential (C15) ===================== *)

\* The GETs of promise p that have not been answered.
InFlight(p) == Len(promises[p].gets) - Len(promises[p].hist)

\* C15: within one aggregation the GET for page k+1 is issued only after
\* the response for page k has been received, to the next link of that
\* response; the aggregation has one GET in flight while it is pending
\* and none once it has settled.
C15_OneGetInFlight ==
    \A p \in 1..Len(promises) :
        LET pr == promises[p]
        IN  /\ InFlight(p) = IF pr.st = "pending" THEN 1 ELSE 0
            /\ \A k \in 2..Len(pr.gets) :
                  /\ k - 1 <= Len(pr.hist)
                  /\ pr.hist[k - 1].response.ok
                  /\ pr.gets[k] = pr.hist[k - 1].response.body.next

\* The GET for the second page is in flight, the first page received.
C15_Witness ==
    \E p \in 1..Len(promises) :
        /\ promises[p].st = "pending"
        /\ Len(promises[p].hist) = 1
        /\ Len(promises[p].gets) = 2

(* ==================== two facade instances (C16) ====================== *)

\* Two facades created in one process (lines 10-21), for different hosts
\* and with different cache settings.
TwoFacades ==
    {[host |-> "kong", cache |-> TRUE], [host |-> "kong-b", cache |-> FALSE]}

\* An operation on facade f: a call of one of its methods, or the
\* completion of its fetchKongVersion call.
OpOn(f) ==
    \/ \E name \in ResourceNames : FetchResource(f.cache, f.host, name)
    \/ FetchKongVersion(f.cache, f.host)
    \/ RequestEndpoint(f.host, "apis", [method |-> "POST", body |-> Undefined])
    \/ \E c \in 1..Len(calls) : VersionThen(c) /\ calls[c].uri.host = f.host

FacadeStep == \E f \in TwoFacades : OpOn(f)

NextFacades == FacadeStep \/ Answer \/ RequestAnswer

SpecFacades == Init /\ [][NextFacades]_vars

\* What facade g reads of the three caches: the results stored for the
\* URIs of its host when its cache is enabled (lines 18, 92-93), the
\* plugin schema cache (line 58) and the version cache (line 67).
ResultsOf(g, rc) ==
    IF g.cache
    THEN [u \in {v \in DOMAIN rc : v.host = g.host} |-> rc[u]]
    ELSE <<>>

\* C16: an operation on one facade instance never changes the results
\* cache, the plugin schema cache or the version cache that another
\* instance reads, the instances being created for different hosts and
\* with different cache settings.
C16_FacadesIndependent ==
    [][\A f \in TwoFacades, g \in TwoFacades :
          (f # g /\ OpOn(f)) =>
              /\ ResultsOf(g, resultsCache') = ResultsOf(g, resultsCache)
              /\ pluginSchemasCache' = pluginSchemasCache
              /\ kongVersionCache' = kongVersionCache]_vars

(* ================ writes invalidate prior reads (C17) ================= *)

\* The call that issued the first GET of the promise call d was handed.
IssuedBy(d) ==
    CHOOSE d0 \in 1..d :
        Fetched(d0) /\ calls[d0].pid = calls[d].pid /\ ~calls[d0].hit

\* C17: with caching enabled, once the response of a requestEndpoint call
\* has been received, no later fetch returns a result whose GET was
\* issued before that response arrived: every requestEndpoint call
\* answered when a fetch is made was answered already when the GET of
\* the result the fetch returns was issued.
C17_NoResultFromBeforeResponse ==
    \A d \in 1..Len(calls) :
        (Fetched(d) /\ calls[d].cache) =>
            calls[d].answered \subseteq calls[IssuedBy(d)].answered

(* ================== failed fetches are cached (C18) =================== *)

\* The results cache holds for uri a promise that has rejected.
HoldsRejected(uri) ==
    CacheHas(resultsCache, uri) /\ promises[resultsCache[uri]].st = "rejected"

\* This step is a fetch of uri through a facade with the cache enabled.
CachedFetchOf(uri) ==
    /\ Len(calls') = Len(calls) + 1
    /\ calls'[Len(calls')].op = "fetch"
    /\ calls'[Len(calls')].cache
    /\ calls'[Len(calls')].uri = uri

\* This step is a call of requestEndpoint.
RequestCalled ==
    /\ Len(calls') = Len(calls) + 1
    /\ calls'[Len(calls')].op = "requestEndpoint"

\* C18: with caching enabled a rejected fetch stays cached: a later fetch
\* of its URI, no requestEndpoint call having come between, is handed the
\* same rejected promise and issues no GET, and only a requestEndpoint
\* call removes or replaces the entry.
C18_RejectionStaysCached ==
    [][\A uri \in FirstUris :
          HoldsRejected(uri) =>
              /\ CachedFetchOf(uri) =>
                    /\ calls'[Len(calls')].pid = resultsCache[uri]
                    /\ calls'[Len(calls')].hit
                    /\ calls'[Len(calls')].requests = 0
                    /\ promises' = promises
                    /\ TotalRequests' = TotalRequests
              /\ (~CacheHas(resultsCache', uri)
                  \/ resultsCache'[uri] # resultsCache[uri]) => RequestCalled
      ]_vars

\* A fetch was handed the stored promise of an earlier fetch that had
\* rejected by then.
C18_Witness ==
    \E d \in 1..Len(calls) :
        /\ Fetched(d) /\ calls[d].op = "fetch" /\ calls[d].cache
        /\ calls[d].found = "rejected"
        /\ promises[calls[d].pid].val.type = "HttpError"

(* ============ the version cache after a failure (C19) ================= *)

\* This step is a call of fetchKongVersion.
VersionCalled ==
    /\ Len(calls') = Len(calls) + 1
    /\ calls'[Len(calls')].op = "fetchKongVersion"

\* A fetchKongVersion call has failed and none has succeeded.
VersionFailed ==
    /\ kongVersionCache = Undefined
    /\ \E d \in 1..Len(calls) :
          calls[d].op = "fetchKongVersion" /\ calls[d].st = "rejected"

\* C19: only a successful fetch populates the version cache: while no
\* fetchKongVersion call has succeeded the cache is unset, and a
\* fetchKongVersion call made after one has failed issues a new GET to
\* the root endpoint instead of replaying the failure, with the results
\* cache enabled or disabled.
C19_FailureIsNotReplayed ==
    /\ [](firstDone.version = Undefined => kongVersionCache = Undefined)
    /\ [][(VersionFailed /\ VersionCalled) =>
             /\ calls'[Len(calls')].requests = 1
             /\ ~calls'[Len(calls')].hit
             /\ Len(promises') = Len(promises) + 1
             /\ promises'[Len(promises')].gets =
                   <<calls'[Len(calls')].uri>>
             /\ calls'[Len(calls')].uri.name = "root"]_vars

====
